---- MODULE Spec2Model ----
(***************************************************************************)
(* Payment checkout of the mobile storefront.                              *)
(*                                                                         *)
(*   Spec        the route-parameter checkout screen (hosted payment page  *)
(*               in a WebView, redirect interception, verifyPayment, the   *)
(*               success / error alerts and their navigation);             *)
(*   SelfSpec    the checkout screen that initiates the payment itself     *)
(*               (CheckoutScreen.tsx and its older copy);                  *)
(*   ExtractSpec extractReferenceFromUrl applied to redirect URLs.         *)
(*                                                                         *)
(* A JavaScript string that the code searches or parses (a URL) is a       *)
(* sequence of lexemes, e.g.                                               *)
(*   <<"https","://","app","/","payment-callback","?","reference","=",     *)
(*     "ref123","&","success","=","true">>                                 *)
(* and includes / startsWith / split / URL parsing work on that sequence.  *)
(* Other strings (messages, reference values) are TLA+ strings.            *)
(***************************************************************************)
EXTENDS Integers, Sequences, FiniteSets, Bags, TLC

(* ------------------------------------------------------------------ *)
(* JavaScript values                                                   *)
(* ------------------------------------------------------------------ *)

\* undefined and null, as strings no program text collides with
Undefined == "<undefined>"
Null == "<null>"

\* !v for a string-or-missing value
Falsy(v) == v \in {Undefined, Null, ""}

\* a || b
Or(a, b) == IF Falsy(a) THEN b ELSE a

\* the text of a lexeme sequence
RECURSIVE Join(_)
Join(toks) == IF toks = <<>> THEN "" ELSE Head(toks) \o Join(Tail(toks))

\* the indices at which pat occurs in s
Matches(s, pat) ==
    {i \in 1..(Len(s) - Len(pat) + 1) : \A k \in 1..Len(pat) : s[i + k - 1] = pat[k]}

\* String.prototype.includes
Includes(s, pat) ==
    \E i \in 1..(Len(s) - Len(pat) + 1) : \A k \in 1..Len(pat) : s[i + k - 1] = pat[k]

\* String.prototype.startsWith
StartsWith(s, pre) == Len(s) >= Len(pre) /\ SubSeq(s, 1, Len(pre)) = pre

\* the least index at which pat occurs in s, 0 when it does not occur
IndexOf(s, pat) ==
    LET hits == Matches(s, pat)
    IN  IF hits = {} THEN 0 ELSE CHOOSE i \in hits : \A j \in hits : i <= j

\* s.split(pat)[0]
SplitFirst(s, pat) ==
    IF Includes(s, pat) THEN SubSeq(s, 1, IndexOf(s, pat) - 1) ELSE s

\* what follows the first occurrence of pat in s
AfterFirst(s, pat) == SubSeq(s, IndexOf(s, pat) + Len(pat), Len(s))

\* s.split(pat)[1]: undefined when pat does not occur in s
SplitSecond(s, pat) ==
    IF Includes(s, pat) THEN SplitFirst(AfterFirst(s, pat), pat) ELSE Undefined

(* ------------------------------------------------------------------ *)
(* new URL(url) and URLSearchParams.get                                 *)
(* ------------------------------------------------------------------ *)

\* new URL(url) without a base throws unless url is absolute (scheme "://" ...)
UrlParses(url) == Len(url) >= 2 /\ url[2] = "://"

\* the query of a parsed URL: what follows the first "?"
UrlQuery(url) == IF Includes(url, <<"?">>) THEN AfterFirst(url, <<"?">>) ELSE <<>>

\* the query cut into its "&"-separated pairs
RECURSIVE QueryPairs(_)
QueryPairs(q) ==
    IF q = <<>> THEN <<>>
    ELSE IF Includes(q, <<"&">>)
         THEN <<SplitFirst(q, <<"&">>)>> \o QueryPairs(AfterFirst(q, <<"&">>))
         ELSE <<q>>

\* the name and the value of one pair "name=value"
PairName(p) == Join(SplitFirst(p, <<"=">>))
PairValue(p) == IF Includes(p, <<"=">>) THEN Join(AfterFirst(p, <<"=">>)) ELSE ""

\* urlObj.searchParams.get(name): the first pair of that name, else null
SearchParamsGet(url, name) ==
    LET ps == QueryPairs(UrlQuery(url))
        hits == {i \in 1..Len(ps) : ps[i] # <<>> /\ PairName(ps[i]) = name}
    IN  IF hits = {} THEN Null
        ELSE PairValue(ps[CHOOSE i \in hits : \A j \in hits : i <= j])

(* ------------------------------------------------------------------ *)
(* The route-parameter checkout screen: pure helpers                   *)
(* ------------------------------------------------------------------ *)

\* the success patterns of isPaymentSuccessUrl, as lexeme sequences
successPatterns ==
    { <<"kibraconnect", "://", "payment-callback">>,
      <<"success", "=", "true">>,
      <<"/", "api/marketplace/payments/callback", "/">>,
      <<"paystack.co", "/", "success">>,
      <<"payment", "/", "success">> }

\* the callback path handleWebViewError looks for
callbackPath == <<"/", "api/marketplace/payments/callback", "/">>

\* isPaymentSuccessUrl taking every https page for a success
isPaymentSuccessUrl_AnyHttps(url) == StartsWith(url, <<"https">>)

isPaymentSuccessUrl(url) == \E pattern \in successPatterns : Includes(url, pattern)

\* extractReferenceFromUrl reading the success flag instead of the reference
extractReferenceFromUrl_ReadsSuccessFlag(url, sessionRef) ==
    IF UrlParses(url)
    THEN Or(SearchParamsGet(url, "success"), sessionRef)
    ELSE sessionRef

\* extractReferenceFromUrl; sessionRef is the route parameter `reference`
extractReferenceFromUrl(url, sessionRef) ==
    IF UrlParses(url)
    THEN Or(SearchParamsGet(url, "reference"),
            Or(SearchParamsGet(url, "transaction_id"), sessionRef))
    ELSE \* catch: url.split('reference=')[1]?.split('&')[0] || reference
         IF Includes(url, <<"reference", "=">>)
         THEN Or(Join(SplitFirst(SplitSecond(url, <<"reference", "=">>), <<"&">>)),
                 sessionRef)
         ELSE sessionRef

\* !authorizationUrl || !authorizationUrl.startsWith('https');
\* a missing or empty authorizationUrl is the empty lexeme sequence
InvalidLink(url) == url = <<>> \/ ~StartsWith(url, <<"https">>)

\* View without the invalid-link guard
View_NoLinkCheck(fl, url, vis, err) ==
    IF ~fl THEN "spinner"
    ELSE IF vis THEN "webview"
    ELSE IF ~Falsy(err) THEN "error"
    ELSE "loading"

\* what the component renders for a given state (the return statements)
View(fl, url, vis, err) ==
    IF ~fl THEN "spinner"
    ELSE IF InvalidLink(url) THEN "invalid"
    ELSE IF vis THEN "webview"
    ELSE IF ~Falsy(err) THEN "error"
    ELSE "loading"

\* order_id and orderId are <<>> (undefined) or <<n>>
NoOrderId == <<>>

\* OutcomeAlert taking every response that arrived for a success
OutcomeAlert_TrustsAnyResponse(o) ==
    IF o.threw
    THEN [kind |-> "error", message |-> Or(o.message, "Payment verification failed"),
          orderId |-> NoOrderId]
    ELSE [kind |-> "success", message |-> "Your payment was processed successfully!",
          orderId |-> o.order_id]

\* OutcomeAlert taking every status other than "failed" for a success
OutcomeAlert_NotFailedIsSuccess(o) ==
    IF o.threw
    THEN [kind |-> "error", message |-> Or(o.message, "Payment verification failed"),
          orderId |-> NoOrderId]
    ELSE IF o.status # "failed"
         THEN [kind |-> "success", message |-> "Your payment was processed successfully!",
               orderId |-> o.order_id]
         ELSE [kind |-> "error",
               message |-> Or(o.error, "Payment failed. Please try again."),
               orderId |-> NoOrderId]

\* OutcomeAlert showing the fixed text for every failed response
OutcomeAlert_GenericFailure(o) ==
    IF o.threw
    THEN [kind |-> "error", message |-> Or(o.message, "Payment verification failed"),
          orderId |-> NoOrderId]
    ELSE IF o.status = "success"
         THEN [kind |-> "success", message |-> "Your payment was processed successfully!",
               orderId |-> o.order_id]
         ELSE [kind |-> "error", message |-> "Payment failed. Please try again.",
               orderId |-> NoOrderId]

\* OutcomeAlert calling showSuccessAlert without the order id
OutcomeAlert_DropsOrderId(o) ==
    IF o.threw
    THEN [kind |-> "error", message |-> Or(o.message, "Payment verification failed"),
          orderId |-> NoOrderId]
    ELSE IF o.status = "success"
         THEN [kind |-> "success", message |-> "Your payment was processed successfully!",
               orderId |-> NoOrderId]
         ELSE [kind |-> "error",
               message |-> Or(o.error, "Payment failed. Please try again."),
               orderId |-> NoOrderId]

\* the alert opened after a verifyPayment call settled with outcome o
OutcomeAlert(o) ==
    IF o.threw
    THEN [kind |-> "error", message |-> Or(o.message, "Payment verification failed"),
          orderId |-> NoOrderId]
    ELSE IF o.status = "success"
         THEN [kind |-> "success", message |-> "Your payment was processed successfully!",
               orderId |-> o.order_id]
         ELSE [kind |-> "error",
               message |-> Or(o.error, "Payment failed. Please try again."),
               orderId |-> NoOrderId]

(* ------------------------------------------------------------------ *)
(* Bounds and the inputs the environment may supply                    *)
(* ------------------------------------------------------------------ *)

\* verifyPayment calls per mount, and open alerts that no call opened
MaxCalls == 2
MaxLoadAlerts == 1

GatewayPage == <<"https", "://", "pay.example", "/", "abc">>
InsecurePage == <<"http", "://", "insecure">>
CallbackE2E ==
    <<"https", "://", "app", "/", "payment-callback", "?",
      "reference", "=", "ref123", "&", "success", "=", "true">>
BackendCallback ==
    <<"http", "://", "3.82.235.244", "/", "api/marketplace/payments/callback", "/",
      "?", "reference", "=", "ref123">>
BackendCallbackBare ==
    <<"http", "://", "3.82.235.244", "/", "api/marketplace/payments/callback", "/">>
GatewaySuccess == <<"https", "://", "paystack.co", "/", "success">>
AppSchemeCallback ==
    <<"kibraconnect", "://", "payment-callback", "?", "transaction_id", "=", "B">>

\* route.params of one mount
AuthorizationUrls == {<<>>, InsecurePage, GatewayPage}
SessionReferences == {Undefined, "ref123"}

\* URLs of the navigation-state and load-error events of the WebView
NavUrls == {GatewayPage, CallbackE2E, BackendCallback, GatewaySuccess}
ErrorUrls == {GatewayPage, BackendCallback, BackendCallbackBare}
ErrorDescriptions == {"", "net::ERR_CONNECTION_REFUSED"}

\* how a verifyPayment call may settle: the axios response body
\* {status, order_id?, error?} or a thrown error with its message
Resolved(st, oid, err) ==
    [threw |-> FALSE, status |-> st, order_id |-> oid, error |-> err,
     message |-> Undefined]
Rejected(msg) ==
    [threw |-> TRUE, status |-> Undefined, order_id |-> NoOrderId,
     error |-> Undefined, message |-> msg]
VerifyOutcomes ==
    {Resolved("success", oid, Undefined) : oid \in {NoOrderId, <<7>>}}
    \cup {Resolved("failed", NoOrderId, e) : e \in {Undefined, "", "card_declined"}}
    \cup {Resolved("pending", NoOrderId, Undefined),
          Resolved(Undefined, NoOrderId, Undefined)}
    \cup {Rejected(m) : m \in {Undefined, "Network Error"}}

\* the outcome field of an alert that no verifyPayment continuation opened
NoOutcome == Resolved("<none>", NoOrderId, Undefined)

(* ------------------------------------------------------------------ *)
(* State                                                               *)
(* ------------------------------------------------------------------ *)

VARIABLES
    authorizationUrl,   \* route.params.authorizationUrl
    reference,          \* route.params.reference
    fontsPc,            \* loadFonts: "loading" until Font.loadAsync settles
    fontsLoaded,        \* useState(false)
    webViewVisible,     \* useState(false)
    webViewError,       \* useState(null)
    rendered,           \* the view of the last committed render
    calls,              \* the verifyPayment calls issued, in order: the reference
                        \* sent, whether the call settled, and whether the
                        \* backend answered status "success"
    alerts,             \* the alerts Alert.alert opened that are still open
    nav,                \* the navigation stack, top last
    retried             \* Try Again was pressed

ckVars ==
    <<authorizationUrl, reference, fontsPc, fontsLoaded, webViewVisible,
      webViewError, rendered, calls, alerts, nav, retried>>

\* the checkout screen that initiates the payment itself
VARIABLES
    variant,            \* "current": CheckoutScreen.tsx, "older": its older copy
    cartItems,          \* cartItems.length
    selectedAddress,    \* selectedAddress.id; 0 is null
    loading,            \* useState(true)
    error,              \* error !== null
    paymentLoading,     \* useState(false)
    paymentUrl,         \* useState(null); <<>> is null
    fetching,           \* fetchData calls in flight
    initiating,         \* an initiatePayment request is in flight
    selfAlerts,         \* the messages of the open alerts
    selfNav,            \* the navigation stack, top last
    apiLog              \* the backend operations requested so far

selfVars ==
    <<variant, cartItems, selectedAddress, loading, error, paymentLoading,
      paymentUrl, fetching, initiating, selfAlerts, selfNav, apiLog>>

\* extractReferenceFromUrl applied to one redirect URL
VARIABLES
    exRefParam,         \* the reference parameter the URL was written with
    exTxnParam,         \* the transaction_id parameter the URL was written with
    exUrl,              \* the URL
    exSessionRef,       \* the session's reference
    exResult            \* the value returned, NotApplied before the call

exVars == <<exRefParam, exTxnParam, exUrl, exSessionRef, exResult>>

\* the two cart screens of CartScreen.tsx
VARIABLES
    cartScreen,         \* the cart screen that is mounted: "list" (cartItems and
                        \* subtotal), "coupon" (cart, coupon and addresses)
    listItems,          \* cartItems of the item-list screen: item id -> item
    subtotal,           \* useState(0)
    listView,           \* "loading", "error" or "ready" (loading / error state)
    cart,               \* cart of the coupon screen: null, or cart.items as
                        \* item id -> quantity
    shippingAddresses,  \* address id -> address
    selectedAddressId,  \* 0 is null
    couponLoading,      \* loading of the coupon screen
    cartOps,            \* the backend calls in flight, each with the state its
                        \* handler closed over
    cartAlerts,         \* the open alerts
    cartNav             \* the navigation stack, top last

cartVars ==
    <<cartScreen, listItems, subtotal, listView, cart, shippingAddresses,
      selectedAddressId, couponLoading, cartOps, cartAlerts, cartNav>>

\* the session: device storage, the API client and the screens that log in
\* and out
VARIABLES
    storage,            \* AsyncStorage: key -> value, Null when absent
    appRoute,           \* the route shown, "off" while the app is not running
    splashPc,           \* checkLogin: "timer", "reading", then "done"
    splashToken,        \* the token checkLogin read
    loginPc,            \* handleLogin: the key it stores next (0 when not
                        \* running) and the access token it received
    logoutPc,           \* handleLogout: the key it removes next, 0 when not
                        \* running
    request,            \* the API request being prepared by the interceptor
    sent,               \* the request sent last: its Authorization header, the
                        \* token the interceptor read for it and the token
                        \* stored when it was sent
    starts,             \* how many times the app was started
    lastAuth,           \* the later of: a login stored an access token, a
                        \* logout ran to its end; with the start it happened in
    sessAlerts          \* the open alerts

sessVars ==
    <<storage, appRoute, splashPc, splashToken, loginPc, logoutPc, request,
      sent, starts, lastAuth, sessAlerts>>

vars == <<ckVars, selfVars, exVars, cartVars, sessVars>>

NotApplied == "<not applied>"

\* the other two components at rest
SelfIdle ==
    /\ variant = "current"
    /\ cartItems = 0
    /\ selectedAddress = 0
    /\ loading = FALSE
    /\ error = FALSE
    /\ paymentLoading = FALSE
    /\ paymentUrl = <<>>
    /\ fetching = 0
    /\ initiating = FALSE
    /\ selfAlerts = {}
    /\ selfNav = <<>>
    /\ apiLog = {}

ExIdle ==
    /\ exRefParam = Null
    /\ exTxnParam = Null
    /\ exUrl = <<>>
    /\ exSessionRef = Undefined
    /\ exResult = NotApplied

CkIdle ==
    /\ authorizationUrl = <<>>
    /\ reference = Undefined
    /\ fontsPc = "done"
    /\ fontsLoaded = FALSE
    /\ webViewVisible = FALSE
    /\ webViewError = Null
    /\ rendered = "unmounted"
    /\ calls = <<>>
    /\ alerts = {}
    /\ nav = <<>>
    /\ retried = FALSE

NoRequest == [token |-> "<no request>"]
NotSent == [authorization |-> Undefined, read |-> "<not sent>", stored |-> "<not sent>"]

CartIdle ==
    /\ cartScreen = "none"
    /\ listItems = <<>>
    /\ subtotal = 0
    /\ listView = "loading"
    /\ cart = [present |-> FALSE, items |-> <<>>]
    /\ shippingAddresses = <<>>
    /\ selectedAddressId = 0
    /\ couponLoading = FALSE
    /\ cartOps = EmptyBag
    /\ cartAlerts = {}
    /\ cartNav = <<>>

SessIdle ==
    /\ storage = [k \in {"access_token", "refresh_token", "user_id"} |-> Null]
    /\ appRoute = "off"
    /\ splashPc = "done"
    /\ splashToken = Null
    /\ loginPc = [at |-> 0, access |-> Null]
    /\ logoutPc = 0
    /\ request = NoRequest
    /\ sent = NotSent
    /\ starts = 0
    /\ lastAuth = [op |-> "none", start |-> 0]
    /\ sessAlerts = {}

Route(name, orderId) == [name |-> name, orderId |-> orderId]

CkInit ==
    /\ authorizationUrl \in AuthorizationUrls
    /\ reference \in SessionReferences
    /\ fontsPc = "loading"
    /\ fontsLoaded = FALSE
    /\ webViewVisible = FALSE
    /\ webViewError = Null
    /\ rendered = "spinner"
    /\ calls = <<>>
    /\ alerts = {}
    /\ nav = <<Route("Cart", NoOrderId), Route("Checkout", NoOrderId)>>
    /\ retried = FALSE
    /\ SelfIdle
    /\ ExIdle
    /\ CartIdle
    /\ SessIdle

\* the checkout screen is still the top route
Mounted == nav[Len(nav)].name = "Checkout"

InFlight == {i \in 1..Len(calls) : ~calls[i].done}
LoadAlerts == {a \in alerts : a.call = 0}

\* Alert.alert of showErrorAlert / showSuccessAlert; call is the verifyPayment
\* call whose continuation opened it, 0 when none did
Opened(a, call, outcome) ==
    [kind |-> a.kind, message |-> a.message, orderId |-> a.orderId,
     call |-> call, outcome |-> outcome]
showErrorAlert(message) ==
    Opened([kind |-> "error", message |-> message, orderId |-> NoOrderId], 0, NoOutcome)

(* ------------------------------------------------------------------ *)
(* Navigation                                                          *)
(* ------------------------------------------------------------------ *)

\* the screen leaves the stack: the component is unmounted and its useState
\* values are discarded
Unmount ==
    /\ rendered' = "unmounted"
    /\ fontsLoaded' = FALSE
    /\ webViewVisible' = FALSE
    /\ webViewError' = Null

\* navigation.goBack() of this screen: pops it while it is the top route
goBack ==
    /\ nav' = IF Mounted THEN SubSeq(nav, 1, Len(nav) - 1) ELSE nav
    /\ Unmount

\* navigation.replace(name, params) of this screen
replace(route) ==
    /\ nav' = IF Mounted THEN [nav EXCEPT ![Len(nav)] = route] ELSE nav
    /\ Unmount

(* ------------------------------------------------------------------ *)
(* Handlers                                                            *)
(* ------------------------------------------------------------------ *)

\* const referenceId = extractReferenceFromUrl(url) || reference
referenceIdOf(url) == Or(extractReferenceFromUrl(url, reference), reference)

\* handleNavigationStateChange from `if (isPaymentSuccessUrl(url))` up to the
\* await: the WebView is hidden, then either verifyPayment is called or the
\* missing reference is thrown and caught
NavVisible(url) == IF isPaymentSuccessUrl(url) THEN FALSE ELSE webViewVisible
\* NavCalls calling verifyPayment whether or not a reference was resolved
NavCalls_WithoutReference(url) ==
    IF isPaymentSuccessUrl(url)
    THEN Append(calls, [ref |-> referenceIdOf(url), done |-> FALSE,
                        verified |-> FALSE])
    ELSE calls

NavCalls(url) ==
    IF isPaymentSuccessUrl(url) /\ ~Falsy(referenceIdOf(url))
    THEN Append(calls, [ref |-> referenceIdOf(url), done |-> FALSE,
                        verified |-> FALSE])
    ELSE calls
NavAlerts(url) ==
    IF isPaymentSuccessUrl(url) /\ Falsy(referenceIdOf(url))
    THEN alerts \cup {showErrorAlert("No reference found in callback URL")}
    ELSE alerts

handleNavigationStateChange(url, isLoading) ==
    /\ webViewVisible' = NavVisible(url)
    /\ calls' = NavCalls(url)
    /\ alerts' = NavAlerts(url)
    /\ UNCHANGED <<selfVars, exVars, cartVars, sessVars,
                   authorizationUrl, reference, fontsPc,
                   fontsLoaded, webViewError, rendered, nav, retried>>

\* the callback branch of handleWebViewError is taken
ErrorIsCallback(url) ==
    Includes(url, callbackPath) /\ ~Falsy(extractReferenceFromUrl(url, reference))

\* handleWebViewError without the callback branch
handleWebViewError_AlwaysAlerts(url, description) ==
    /\ webViewError' = description
    /\ alerts' = alerts \cup
           {showErrorAlert(Or(description, "Failed to load payment page"))}
    /\ UNCHANGED <<webViewVisible, calls>>
    /\ UNCHANGED <<selfVars, exVars, cartVars, sessVars,
                   authorizationUrl, reference, fontsPc,
                   fontsLoaded, rendered, nav, retried>>

\* handleWebViewError showing the fixed text whatever the description
handleWebViewError_FixedText(url, description) ==
    /\ webViewError' = description
    /\ IF ErrorIsCallback(url)
       THEN /\ webViewVisible' = NavVisible(url)
            /\ calls' = NavCalls(url)
            /\ alerts' = NavAlerts(url)
       ELSE /\ alerts' = alerts \cup {showErrorAlert("Failed to load payment page")}
            /\ UNCHANGED <<webViewVisible, calls>>
    /\ UNCHANGED <<selfVars, exVars, cartVars, sessVars,
                   authorizationUrl, reference, fontsPc,
                   fontsLoaded, rendered, nav, retried>>

handleWebViewError(url, description) ==
    /\ webViewError' = description
    /\ IF ErrorIsCallback(url)
       THEN \* handleNavigationStateChange({ url: nativeEvent.url }); return
            /\ webViewVisible' = NavVisible(url)
            /\ calls' = NavCalls(url)
            /\ alerts' = NavAlerts(url)
       ELSE /\ alerts' = alerts \cup
                   {showErrorAlert(Or(description, "Failed to load payment page"))}
            /\ UNCHANGED <<webViewVisible, calls>>
    /\ UNCHANGED <<selfVars, exVars, cartVars, sessVars,
                   authorizationUrl, reference, fontsPc,
                   fontsLoaded, rendered, nav, retried>>

\* the handler would start a call / open an alert beyond the bounds
WithinBounds(startsCall, opensAlert) ==
    /\ startsCall => Len(calls) < MaxCalls
    /\ opensAlert => Cardinality(LoadAlerts) < MaxLoadAlerts

(* ------------------------------------------------------------------ *)
(* Actions                                                             *)
(* ------------------------------------------------------------------ *)

\* Font.loadAsync resolves
LoadFontsOk ==
    /\ fontsPc = "loading"
    /\ fontsPc' = "done"
    /\ fontsLoaded' = TRUE
    /\ webViewVisible' = TRUE
    /\ UNCHANGED <<selfVars, exVars, cartVars, sessVars,
                   authorizationUrl, reference,
                   webViewError, rendered, calls, alerts, nav, retried>>

\* Font.loadAsync rejects
LoadFontsFail ==
    /\ fontsPc = "loading"
    /\ fontsPc' = "done"
    /\ alerts' = alerts \cup {showErrorAlert("Failed to load fonts")}
    /\ fontsLoaded' = TRUE
    /\ UNCHANGED <<selfVars, exVars, cartVars, sessVars,
                   authorizationUrl, reference,
                   webViewVisible, webViewError, rendered, calls, nav,
                   retried>>

\* React commits a render of the current state
Render ==
    /\ Mounted
    /\ rendered # View(fontsLoaded, authorizationUrl, webViewVisible, webViewError)
    /\ rendered' = View(fontsLoaded, authorizationUrl, webViewVisible, webViewError)
    /\ UNCHANGED <<selfVars, exVars, cartVars, sessVars,
                   authorizationUrl, reference, fontsPc,
                   fontsLoaded, webViewVisible, webViewError, calls, alerts,
                   nav, retried>>

\* the mounted WebView reports a navigation state change (its loading flag
\* drives the progress bar only)
BrowserNavEvent ==
    \E url \in NavUrls, isLoading \in BOOLEAN :
        /\ Mounted
        /\ rendered = "webview"
        /\ WithinBounds(isPaymentSuccessUrl(url) /\ ~Falsy(referenceIdOf(url)),
                        isPaymentSuccessUrl(url) /\ Falsy(referenceIdOf(url)))
        /\ handleNavigationStateChange(url, isLoading)

\* the mounted WebView reports onError / onHttpError
BrowserErrorEvent ==
    \E url \in ErrorUrls, description \in ErrorDescriptions :
        /\ Mounted
        /\ rendered = "webview"
        /\ WithinBounds(ErrorIsCallback(url), ~ErrorIsCallback(url))
        /\ handleWebViewError(url, description)

\* a verifyPayment call settles and the rest of handleNavigationStateChange runs
VerifySettles ==
    \E i \in InFlight, o \in VerifyOutcomes :
        /\ calls' = [calls EXCEPT ![i].done = TRUE,
                                  ![i].verified = (~o.threw /\ o.status = "success")]
        /\ alerts' = alerts \cup {Opened(OutcomeAlert(o), i, o)}
        /\ UNCHANGED <<selfVars, exVars, cartVars, sessVars,
                       authorizationUrl, reference,
                       fontsPc, fontsLoaded, webViewVisible, webViewError,
                       rendered, nav, retried>>

\* OK of showErrorAlert
PressOK ==
    \E a \in alerts :
        /\ a.kind = "error"
        /\ alerts' = alerts \ {a}
        /\ goBack
        /\ UNCHANGED <<selfVars, exVars, cartVars, sessVars,
                       authorizationUrl, reference,
                       fontsPc, calls, retried>>

\* Continue Shopping of showSuccessAlert
PressContinueShopping ==
    \E a \in alerts :
        /\ a.kind = "success"
        /\ alerts' = alerts \ {a}
        /\ replace(Route("Home", NoOrderId))
        /\ UNCHANGED <<selfVars, exVars, cartVars, sessVars,
                       authorizationUrl, reference,
                       fontsPc, calls, retried>>

\* View Order of showSuccessAlert
PressViewOrder ==
    \E a \in alerts :
        /\ a.kind = "success"
        /\ alerts' = alerts \ {a}
        /\ replace(Route("OrderDetail", a.orderId))
        /\ UNCHANGED <<selfVars, exVars, cartVars, sessVars,
                       authorizationUrl, reference,
                       fontsPc, calls, retried>>

\* Try Again that leaves the WebView hidden
PressTryAgain_NoReload ==
    /\ Mounted
    /\ rendered = "error"
    /\ alerts = {}
    /\ retried' = TRUE
    /\ UNCHANGED <<selfVars, exVars, cartVars, sessVars,
                   authorizationUrl, reference, fontsPc,
                   fontsLoaded, webViewVisible, webViewError, rendered, calls,
                   alerts, nav>>

\* Try Again of renderError
PressTryAgain ==
    /\ Mounted
    /\ rendered = "error"
    /\ alerts = {}
    /\ webViewVisible' = TRUE
    /\ retried' = TRUE
    /\ UNCHANGED <<selfVars, exVars, cartVars, sessVars,
                   authorizationUrl, reference, fontsPc,
                   fontsLoaded, webViewError, rendered, calls, alerts, nav>>

\* Back to Cart of renderError and of the invalid-link view
PressBackToCart ==
    /\ Mounted
    /\ rendered \in {"error", "invalid"}
    /\ alerts = {}
    /\ goBack
    /\ UNCHANGED <<selfVars, exVars, cartVars, sessVars,
                   authorizationUrl, reference, fontsPc,
                   calls, alerts, retried>>

\* the back arrow of the header
PressHeaderBack ==
    /\ Mounted
    /\ rendered \in {"webview", "error", "loading"}
    /\ alerts = {}
    /\ goBack
    /\ UNCHANGED <<selfVars, exVars, cartVars, sessVars,
                   authorizationUrl, reference, fontsPc,
                   calls, alerts, retried>>

Next ==
    \/ LoadFontsOk
    \/ LoadFontsFail
    \/ Render
    \/ BrowserNavEvent
    \/ BrowserErrorEvent
    \/ VerifySettles
    \/ PressOK
    \/ PressContinueShopping
    \/ PressViewOrder
    \/ PressTryAgain
    \/ PressBackToCart
    \/ PressHeaderBack

Spec == CkInit /\ [][Next]_vars

(* ------------------------------------------------------------------ *)
(* extractReferenceFromUrl on its own (ExtractSpec)                    *)
(* ------------------------------------------------------------------ *)

\* "name=value" for a parameter written with value v; nothing when v is null
Param(name, v) ==
    IF v = Null THEN <<>> ELSE IF v = "" THEN <<name, "=">> ELSE <<name, "=", v>>

\* the query "p&q" of two parameters, either of which may be missing
QueryOf(p, q) ==
    IF p = <<>> THEN q ELSE IF q = <<>> THEN p ELSE p \o <<"&">> \o q

\* a redirect URL: what precedes the query, then "?" and the query
UrlOf(prefix, query) == IF query = <<>> THEN prefix ELSE prefix \o <<"?">> \o query

\* absolute redirect URLs, and a scheme-less one that new URL() rejects
RedirectPrefixes ==
    { <<"https", "://", "app", "/", "payment-callback">>,
      <<"kibraconnect", "://", "payment-callback">>,
      <<"payment", "/", "success">> }

ExInit ==
    /\ exRefParam \in {Null, "", "A"}
    /\ exTxnParam \in {Null, "", "B"}
    /\ exSessionRef \in {Undefined, "ref123"}
    /\ \E prefix \in RedirectPrefixes, refFirst \in BOOLEAN :
          exUrl = UrlOf(prefix,
                        IF refFirst
                        THEN QueryOf(Param("reference", exRefParam),
                                     Param("transaction_id", exTxnParam))
                        ELSE QueryOf(Param("transaction_id", exTxnParam),
                                     Param("reference", exRefParam)))
    /\ exResult = NotApplied
    /\ CkIdle
    /\ SelfIdle
    /\ CartIdle
    /\ SessIdle

ApplyExtract ==
    /\ exResult = NotApplied
    /\ exResult' = extractReferenceFromUrl(exUrl, exSessionRef)
    /\ UNCHANGED <<ckVars, selfVars, cartVars, sessVars, exRefParam, exTxnParam, exUrl,
                   exSessionRef>>

ExNext == ApplyExtract

ExtractSpec == ExInit /\ [][ExNext]_vars

(* ------------------------------------------------------------------ *)
(* The checkout screen that initiates the payment itself (SelfSpec)    *)
(* ------------------------------------------------------------------ *)

\* cart items and shipping addresses the backend may return
MaxItems == 2
MaxAddresses == 2

SelfGatewayPage == <<"https", "://", "checkout.paystack.com", "/", "xyz">>
SelfCallback ==
    <<"http", "://", "3.82.235.244", "/", "api/orders/payment/callback", "/",
      "?", "reference", "=", "ref123">>
SelfCallbackBare ==
    <<"http", "://", "3.82.235.244", "/", "api/orders/payment/callback", "/">>
SelfNavUrls == {SelfGatewayPage, SelfCallback, SelfCallbackBare}

\* the path handleWebViewNavigation looks for
selfCallbackPath == <<"/", "api/orders/payment/callback", "/">>

\* how initiatePayment may settle: the response body, or the thrown value
InitBody(st, url, msg) ==
    [threw |-> FALSE, status |-> st, authorization_url |-> url, message |-> msg,
     detail |-> Undefined]
InitThrown(detail) ==
    [threw |-> TRUE, status |-> FALSE, authorization_url |-> <<>>,
     message |-> Undefined, detail |-> detail]
InitOutcomes ==
    { InitBody(TRUE, SelfGatewayPage, Undefined),
      InitBody(FALSE, SelfGatewayPage, Undefined),
      InitBody(FALSE, <<>>, "Cart is empty"),
      InitThrown("Network error or server not reachable."),
      InitThrown(Undefined) }

\* `if (response.authorization_url)`; the older copy also wants response.status
InitAccepted(v, r) ==
    /\ ~r.threw
    /\ r.authorization_url # <<>>
    /\ (v = "older" => r.status)

\* the message of the alert opened by the catch block
InitErrorMessage(r) ==
    IF r.threw
    THEN Or(r.detail, Or(r.message, "Failed to initiate payment. Please try again."))
    ELSE Or(r.message, "Payment initialization failed.")

SelfRoute(name, ref) == [name |-> name, reference |-> ref]
SelfTop == selfNav[Len(selfNav)]
SelfFocused == selfNav # <<>> /\ SelfTop.name = "Checkout"

\* what the component renders (fonts are taken as loaded)
SelfView ==
    IF loading THEN "spinner"
    ELSE IF error THEN "error"
    ELSE IF paymentUrl # <<>> THEN "webview"
    ELSE "main"

SelfInit ==
    /\ variant \in {"current", "older"}
    /\ cartItems = 0
    /\ selectedAddress = 0
    /\ loading = TRUE
    /\ error = FALSE
    /\ paymentLoading = FALSE
    /\ paymentUrl = <<>>
    /\ fetching = 1
    /\ initiating = FALSE
    /\ selfAlerts = {}
    /\ selfNav = <<SelfRoute("Cart", Undefined), SelfRoute("Checkout", Undefined)>>
    /\ apiLog = {}
    /\ CkIdle
    /\ ExIdle
    /\ CartIdle
    /\ SessIdle

\* fetchData runs to its end
FetchOk ==
    \E n \in 0..MaxItems, addr \in 0..MaxAddresses :
        /\ fetching > 0
        /\ fetching' = fetching - 1
        /\ cartItems' = n
        /\ selectedAddress' = addr
        /\ loading' = FALSE
        /\ apiLog' = apiLog \cup {"getCartItems", "getShippingAddresses"}
        /\ UNCHANGED <<ckVars, exVars, cartVars, sessVars,
                       variant, error, paymentLoading, paymentUrl,
                       initiating, selfAlerts, selfNav>>

\* getCartItems rejects
FetchFail ==
    /\ fetching > 0
    /\ fetching' = fetching - 1
    /\ error' = TRUE
    /\ loading' = FALSE
    /\ selfAlerts' = selfAlerts \cup
           {"Failed to load checkout data. Please check your connection."}
    /\ apiLog' = apiLog \cup {"getCartItems"}
    /\ UNCHANGED <<ckVars, exVars, cartVars, sessVars,
                   variant, cartItems, selectedAddress,
                   paymentLoading, paymentUrl, initiating, selfNav>>

\* Retry of the error view
PressRetry ==
    /\ SelfFocused
    /\ SelfView = "error"
    /\ selfAlerts = {}
    /\ error' = FALSE
    /\ loading' = TRUE
    /\ fetching' = fetching + 1
    /\ UNCHANGED <<ckVars, exVars, cartVars, sessVars,
                   variant, cartItems, selectedAddress,
                   paymentLoading, paymentUrl, initiating, selfAlerts, selfNav,
                   apiLog>>

\* Pay Now (disabled while paymentLoading or without an address):
\* handleInitiatePayment up to the await
PressPayNow ==
    /\ SelfFocused
    /\ SelfView = "main"
    /\ selfAlerts = {}
    /\ ~paymentLoading
    /\ selectedAddress # 0
    /\ IF cartItems = 0
       THEN /\ selfAlerts' = selfAlerts \cup {"Your cart is empty. Add items to proceed."}
            /\ UNCHANGED <<paymentLoading, initiating, apiLog>>
       ELSE /\ paymentLoading' = TRUE
            /\ initiating' = TRUE
            /\ apiLog' = apiLog \cup {"initiatePayment"}
            /\ UNCHANGED selfAlerts
    /\ UNCHANGED <<ckVars, exVars, cartVars, sessVars,
                   variant, cartItems, selectedAddress, loading,
                   error, paymentUrl, fetching, selfNav>>

\* initiatePayment settles and the rest of handleInitiatePayment runs
InitiateSettles ==
    \E r \in InitOutcomes :
        /\ initiating
        /\ initiating' = FALSE
        /\ IF InitAccepted(variant, r)
           THEN /\ paymentUrl' = r.authorization_url
                /\ UNCHANGED <<paymentLoading, selfAlerts>>
           ELSE /\ selfAlerts' = selfAlerts \cup {InitErrorMessage(r)}
                /\ paymentLoading' = FALSE
                /\ UNCHANGED paymentUrl
        /\ UNCHANGED <<ckVars, exVars, cartVars, sessVars,
                       variant, cartItems, selectedAddress,
                       loading, error, fetching, selfNav, apiLog>>

\* handleWebViewNavigation on a navigation state change of the WebView
SelfNavEvent ==
    \E url \in SelfNavUrls :
        /\ SelfFocused
        /\ SelfView = "webview"
        /\ IF /\ Includes(url, selfCallbackPath)
              /\ UrlParses(url)
              /\ ~Falsy(SearchParamsGet(url, "reference"))
           THEN /\ selfNav' = Append(selfNav,
                       SelfRoute("OrderConfirmation", SearchParamsGet(url, "reference")))
                /\ paymentUrl' = <<>>
           ELSE UNCHANGED <<selfNav, paymentUrl>>
        /\ UNCHANGED <<ckVars, exVars, cartVars, sessVars,
                       variant, cartItems, selectedAddress,
                       loading, error, paymentLoading, fetching, initiating,
                       selfAlerts, apiLog>>

\* the back arrow of OrderConfirmationScreen; the current screen refetches
\* on focus
ConfirmationGoBack ==
    /\ selfNav # <<>>
    /\ SelfTop.name = "OrderConfirmation"
    /\ selfNav' = SubSeq(selfNav, 1, Len(selfNav) - 1)
    /\ IF variant = "current"
       THEN loading' = TRUE /\ fetching' = fetching + 1
       ELSE UNCHANGED <<loading, fetching>>
    /\ UNCHANGED <<ckVars, exVars, cartVars, sessVars,
                   variant, cartItems, selectedAddress, error,
                   paymentLoading, paymentUrl, initiating, selfAlerts, apiLog>>

\* Back to Home of OrderConfirmationScreen
ConfirmationHome ==
    /\ selfNav # <<>>
    /\ SelfTop.name = "OrderConfirmation"
    /\ selfNav' = <<SelfRoute("Home", Undefined)>>
    /\ UNCHANGED <<ckVars, exVars, cartVars, sessVars,
                   variant, cartItems, selectedAddress, loading,
                   error, paymentLoading, paymentUrl, fetching, initiating,
                   selfAlerts, apiLog>>

\* the back arrow of the header
SelfPressBack ==
    /\ SelfFocused
    /\ SelfView = "main"
    /\ selfAlerts = {}
    /\ selfNav' = SubSeq(selfNav, 1, Len(selfNav) - 1)
    /\ UNCHANGED <<ckVars, exVars, cartVars, sessVars,
                   variant, cartItems, selectedAddress, loading,
                   error, paymentLoading, paymentUrl, fetching, initiating,
                   selfAlerts, apiLog>>

\* an alert is dismissed
SelfDismissAlert ==
    \E m \in selfAlerts :
        /\ selfAlerts' = selfAlerts \ {m}
        /\ UNCHANGED <<ckVars, exVars, cartVars, sessVars,
                       variant, cartItems, selectedAddress,
                       loading, error, paymentLoading, paymentUrl, fetching,
                       initiating, selfNav, apiLog>>

SelfNext ==
    \/ FetchOk
    \/ FetchFail
    \/ PressRetry
    \/ PressPayNow
    \/ InitiateSettles
    \/ SelfNavEvent
    \/ ConfirmationGoBack
    \/ ConfirmationHome
    \/ SelfPressBack
    \/ SelfDismissAlert

SelfSpec == SelfInit /\ [][SelfNext]_vars

(* ------------------------------------------------------------------ *)
(* Session: device storage, the API client, splash, login and logout   *)
(* (SessionSpec)                                                       *)
(* ------------------------------------------------------------------ *)

\* bound on the number of app starts
MaxStarts == 2

StorageKeys == {"access_token", "refresh_token", "user_id"}
AccessTokens == {"tokenA", "tokenB"}

\* the interceptor sending the bare token
AuthHeader_NoScheme(token) == IF Falsy(token) THEN Undefined ELSE token

\* the Authorization header the request interceptor sets, Undefined when it
\* sets none
AuthHeader(token) == IF Falsy(token) THEN Undefined ELSE "Bearer " \o token

\* checkLogin going Home whatever it read
checkLoginTarget_AlwaysHome(token) == "Home"

\* navigation.replace(token ? 'Home' : 'Login')
checkLoginTarget(token) == IF Falsy(token) THEN "Login" ELSE "Home"

\* the keys handleLogout removes, in order
LogoutKeys == <<"access_token", "refresh_token", "user_id">>

\* the keys handleLogin stores, in order
LoginKeys == <<"access_token", "refresh_token", "user_id">>

LoginIdle == [at |-> 0, access |-> Null]

\* the app was just started for the first time, nothing is stored
SessInit ==
    /\ storage = [k \in StorageKeys |-> Null]
    /\ appRoute = "Splash"
    /\ splashPc = "timer"
    /\ splashToken = Null
    /\ loginPc = LoginIdle
    /\ logoutPc = 0
    /\ request = NoRequest
    /\ sent = NotSent
    /\ starts = 1
    /\ lastAuth = [op |-> "none", start |-> 0]
    /\ sessAlerts = {}
    /\ CkIdle
    /\ SelfIdle
    /\ ExIdle
    /\ CartIdle

\* the splash timer fires: checkLogin reads the access token
checkLoginReads ==
    /\ appRoute = "Splash"
    /\ splashPc = "timer"
    /\ splashToken' = storage["access_token"]
    /\ splashPc' = "reading"
    /\ UNCHANGED <<ckVars, selfVars, exVars, cartVars, storage, appRoute,
                   loginPc, logoutPc, request, sent, starts, lastAuth,
                   sessAlerts>>

\* checkLogin after its await
checkLoginNavigates ==
    /\ appRoute = "Splash"
    /\ splashPc = "reading"
    /\ appRoute' = checkLoginTarget(splashToken)
    /\ splashPc' = "done"
    /\ UNCHANGED <<ckVars, selfVars, exVars, cartVars, storage, splashToken,
                   loginPc, logoutPc, request, sent, starts, lastAuth,
                   sessAlerts>>

\* Login of the login screen: handleLogin up to `await login(...)`
PressLogin ==
    /\ appRoute = "Login"
    /\ sessAlerts = {}
    /\ loginPc = LoginIdle
    /\ loginPc' = [at |-> 1, access |-> Null]
    /\ UNCHANGED <<ckVars, selfVars, exVars, cartVars, storage, appRoute,
                   splashPc, splashToken, logoutPc, request, sent, starts,
                   lastAuth, sessAlerts>>

\* login resolves with an access token, and handleLogin stores it
LoginStoresAccess ==
    \E token \in AccessTokens :
        /\ loginPc.at = 1
        /\ storage' = [storage EXCEPT ![LoginKeys[1]] = token]
        /\ loginPc' = [at |-> 2, access |-> token]
        /\ lastAuth' = [op |-> "login", start |-> starts]
        /\ UNCHANGED <<ckVars, selfVars, exVars, cartVars, appRoute, splashPc,
                       splashToken, logoutPc, request, sent, starts,
                       sessAlerts>>

\* the next setItem of handleLogin
LoginStoresNext ==
    /\ loginPc.at \in 2..Len(LoginKeys)
    /\ storage' = [storage EXCEPT ![LoginKeys[loginPc.at]] = "stored"]
    /\ loginPc' = [loginPc EXCEPT !.at = loginPc.at + 1]
    /\ UNCHANGED <<ckVars, selfVars, exVars, cartVars, appRoute, splashPc,
                   splashToken, logoutPc, request, sent, starts, lastAuth,
                   sessAlerts>>

\* handleLogin after its last setItem
LoginNavigates ==
    /\ loginPc.at = Len(LoginKeys) + 1
    /\ loginPc' = LoginIdle
    /\ sessAlerts' = sessAlerts \cup {"Logged in successfully!"}
    /\ appRoute' = "Home"
    /\ UNCHANGED <<ckVars, selfVars, exVars, cartVars, storage, splashPc,
                   splashToken, logoutPc, request, sent, starts, lastAuth>>

\* login or one of the setItem calls rejects: the catch block
LoginFails ==
    /\ loginPc.at \in 1..Len(LoginKeys)
    /\ loginPc' = LoginIdle
    /\ sessAlerts' = sessAlerts \cup {"Check your credentials"}
    /\ UNCHANGED <<ckVars, selfVars, exVars, cartVars, storage, appRoute,
                   splashPc, splashToken, logoutPc, request, sent, starts,
                   lastAuth>>

\* the logout icon of the home screen: handleLogout up to its first await
PressLogout ==
    /\ appRoute = "Home"
    /\ sessAlerts = {}
    /\ logoutPc = 0
    /\ logoutPc' = 1
    /\ UNCHANGED <<ckVars, selfVars, exVars, cartVars, storage, appRoute,
                   splashPc, splashToken, loginPc, request, sent, starts,
                   lastAuth, sessAlerts>>

\* the next removeItem of handleLogout
LogoutRemoves ==
    /\ logoutPc \in 1..Len(LogoutKeys)
    /\ storage' = [storage EXCEPT ![LogoutKeys[logoutPc]] = Null]
    /\ logoutPc' = logoutPc + 1
    /\ UNCHANGED <<ckVars, selfVars, exVars, cartVars, appRoute, splashPc,
                   splashToken, loginPc, request, sent, starts, lastAuth,
                   sessAlerts>>

\* handleLogout after its last removeItem
LogoutNavigates ==
    /\ logoutPc = Len(LogoutKeys) + 1
    /\ logoutPc' = 0
    /\ appRoute' = "Login"
    /\ sessAlerts' = sessAlerts \cup {"You have been successfully logged out"}
    /\ lastAuth' = [op |-> "logout", start |-> starts]
    /\ UNCHANGED <<ckVars, selfVars, exVars, cartVars, storage, splashPc,
                   splashToken, loginPc, request, sent, starts>>

\* a removeItem rejects: the catch block
LogoutFails ==
    /\ logoutPc \in 1..Len(LogoutKeys)
    /\ logoutPc' = 0
    /\ sessAlerts' = sessAlerts \cup {"Failed to logout. Please try again."}
    /\ UNCHANGED <<ckVars, selfVars, exVars, cartVars, storage, appRoute,
                   splashPc, splashToken, loginPc, request, sent, starts,
                   lastAuth>>

\* a request enters the API client: the interceptor reads the access token
InterceptorReads ==
    /\ appRoute \in {"Login", "Home"}
    /\ request = NoRequest
    /\ request' = [token |-> storage["access_token"]]
    /\ UNCHANGED <<ckVars, selfVars, exVars, cartVars, storage, appRoute,
                   splashPc, splashToken, loginPc, logoutPc, sent, starts,
                   lastAuth, sessAlerts>>

\* the interceptor after its await: the header is set and the request is sent
RequestSent ==
    /\ request # NoRequest
    /\ sent' = [authorization |-> AuthHeader(request.token),
                read |-> request.token,
                stored |-> storage["access_token"]]
    /\ request' = NoRequest
    /\ UNCHANGED <<ckVars, selfVars, exVars, cartVars, storage, appRoute,
                   splashPc, splashToken, loginPc, logoutPc, starts, lastAuth,
                   sessAlerts>>

\* an alert is dismissed
SessDismissAlert ==
    \E m \in sessAlerts :
        /\ sessAlerts' = sessAlerts \ {m}
        /\ UNCHANGED <<ckVars, selfVars, exVars, cartVars, storage, appRoute,
                       splashPc, splashToken, loginPc, logoutPc, request, sent,
                       starts, lastAuth>>

\* the app is closed: what is in memory is gone, the storage stays
AppCloses ==
    /\ appRoute # "off"
    /\ appRoute' = "off"
    /\ splashPc' = "done"
    /\ splashToken' = Null
    /\ loginPc' = LoginIdle
    /\ logoutPc' = 0
    /\ request' = NoRequest
    /\ sessAlerts' = {}
    /\ UNCHANGED <<ckVars, selfVars, exVars, cartVars, storage, sent, starts,
                   lastAuth>>

\* the app is started: initialRouteName="Splash"
AppStarts ==
    /\ appRoute = "off"
    /\ starts < MaxStarts
    /\ starts' = starts + 1
    /\ appRoute' = "Splash"
    /\ splashPc' = "timer"
    /\ UNCHANGED <<ckVars, selfVars, exVars, cartVars, storage, splashToken,
                   loginPc, logoutPc, request, sent, lastAuth, sessAlerts>>

SessNext ==
    \/ checkLoginReads
    \/ checkLoginNavigates
    \/ PressLogin
    \/ LoginStoresAccess
    \/ LoginStoresNext
    \/ LoginNavigates
    \/ LoginFails
    \/ PressLogout
    \/ LogoutRemoves
    \/ LogoutNavigates
    \/ LogoutFails
    \/ InterceptorReads
    \/ RequestSent
    \/ SessDismissAlert
    \/ AppCloses
    \/ AppStarts

SessionSpec == SessInit /\ [][SessNext]_vars

(* ------------------------------------------------------------------ *)
(* The two cart screens (CartSpec)                                     *)
(*                                                                     *)
(*   "list"    cartItems and subtotal, handleUpdateQuantity and        *)
(*             handleRemoveItem with a stock limit;                    *)
(*   "coupon"  cart, coupon and shipping addresses,                    *)
(*             handleQuantityChange, handleRemoveItem, handleCheckout. *)
(* ------------------------------------------------------------------ *)

\* bounds: backend calls in flight, quantity of an item of the coupon screen
MaxPending == 2
MaxQuantity == 2

ItemIds == {1, 2}

\* parseFloat(item.product.price) of the item with this id
PriceOf(id) == id + 1

\* a cart item of the list screen as getCartItems returns it; an item without
\* a variant has hasVariant FALSE
ListItem(q, hv, vs, ps) ==
    [quantity |-> q, hasVariant |-> hv, variantStock |-> vs, productStock |-> ps]

\* no variant and 2 in stock; a variant with 0 or 1 in stock of a product
\* with 2 in stock
ListItemChoices ==
    {ListItem(1, FALSE, 0, 2), ListItem(1, TRUE, 0, 2), ListItem(1, TRUE, 1, 2)}

FetchedLists ==
    UNION {[ids -> ListItemChoices] : ids \in SUBSET ItemIds}

\* item.variant?.stock || item.product.stock
availableStock(item) ==
    IF item.hasVariant /\ item.variantStock # 0
    THEN item.variantStock
    ELSE item.productStock

RECURSIVE SumOver(_, _)
SumOver(items, ids) ==
    IF ids = {} THEN 0
    ELSE LET id == CHOOSE x \in ids : TRUE
         IN  PriceOf(id) * items[id].quantity + SumOver(items, ids \ {id})

\* items.reduce((sum, item) => sum + parseFloat(item.product.price) * item.quantity, 0)
Total(items) == SumOver(items, DOMAIN items)

\* prevItems.map(item => item.id === itemId ? { ...item, quantity } : item)
WithQuantity(items, itemId, q) ==
    [id \in DOMAIN items |->
        IF id = itemId THEN [items[id] EXCEPT !.quantity = q] ELSE items[id]]

\* items.filter(item => item.id !== itemId)
Without(items, itemId) == [id \in DOMAIN items \ {itemId} |-> items[id]]

\* the cart of the coupon screen: null, or its items as item id -> quantity
\* (each item is of a product of its own)
NoCart == [present |-> FALSE, items |-> <<>>]
CartOf(items) == [present |-> TRUE, items |-> items]

\* what getCart returns: no cart, or a cart with the first n items at
\* quantity 1
FetchedCarts ==
    {NoCart} \cup {CartOf([id \in 1..n |-> 1]) : n \in 0..Cardinality(ItemIds)}

\* cart.items.map(i => i.id === itemId ? { ...i, quantity } : i)
WithCount(items, itemId, q) ==
    [id \in DOMAIN items |-> IF id = itemId THEN q ELSE items[id]]

\* what getShippingAddresses returns: the addresses, id -> address, and the
\* id of the one marked current_address (0: none is)
AddressBook(addrs, current) == [addresses |-> addrs, current |-> current]
FetchedAddresses ==
    {AddressBook(<<"12 Main St">>, 0), AddressBook(<<"12 Main St">>, 1),
     AddressBook(<<"">>, 1)}

\* a backend call in flight with the state its handler closed over
Op(kind, itemId, q, closure) ==
    [kind |-> kind, itemId |-> itemId, quantity |-> q, closure |-> closure]

\* the calls in flight after a handler issued this one
Started(op) == cartOps (+) SetToBag({op})

CartAlert(title, message) == [title |-> title, message |-> message]

CartTop == cartNav[Len(cartNav)]
CartFocused == cartNav # <<>> /\ CartTop = "Cart"

\* the buttons of the main view can be pressed
ListReady == cartScreen = "list" /\ CartFocused /\ listView = "ready" /\ cartAlerts = {}
CouponReady ==
    cartScreen = "coupon" /\ CartFocused /\ ~couponLoading /\ cartAlerts = {}

CartInit ==
    /\ cartScreen \in {"list", "coupon"}
    /\ listItems = <<>>
    /\ subtotal = 0
    /\ listView = "loading"
    /\ cart = NoCart
    /\ shippingAddresses = <<>>
    /\ selectedAddressId = 0
    /\ couponLoading = (cartScreen = "coupon")
    /\ cartOps = EmptyBag
    /\ cartAlerts = {}
    /\ cartNav = <<"Cart">>
    /\ CkIdle
    /\ SelfIdle
    /\ ExIdle
    /\ SessIdle

\* fetchCartItems of the list screen resolves
ListFetchOk ==
    \E items \in FetchedLists :
        /\ cartScreen = "list"
        /\ listView = "loading"
        /\ listItems' = items
        /\ subtotal' = Total(items)
        /\ listView' = "ready"
        /\ UNCHANGED <<ckVars, selfVars, exVars, sessVars, cartScreen, cart,
                       shippingAddresses, selectedAddressId, couponLoading,
                       cartOps, cartAlerts, cartNav>>

\* getCartItems rejects
ListFetchFail ==
    /\ cartScreen = "list"
    /\ listView = "loading"
    /\ listView' = "error"
    /\ cartAlerts' = cartAlerts \cup
           {CartAlert("Error", "Failed to load cart. Please check your connection.")}
    /\ UNCHANGED <<ckVars, selfVars, exVars, sessVars, cartScreen, listItems,
                   subtotal, cart, shippingAddresses, selectedAddressId,
                   couponLoading, cartOps, cartNav>>

\* Retry of the error view
ListPressRetry ==
    /\ cartScreen = "list"
    /\ CartFocused
    /\ listView = "error"
    /\ cartAlerts = {}
    /\ listView' = "loading"
    /\ UNCHANGED <<ckVars, selfVars, exVars, sessVars, cartScreen, listItems,
                   subtotal, cart, shippingAddresses, selectedAddressId,
                   couponLoading, cartOps, cartAlerts, cartNav>>

\* handleUpdateQuantity(itemId, newQuantity) up to its await
handleUpdateQuantity(itemId, newQuantity) ==
    /\ IF newQuantity < 1
       THEN UNCHANGED <<cartOps, cartAlerts>>
       ELSE IF newQuantity > availableStock(listItems[itemId])
            THEN /\ cartAlerts' = cartAlerts \cup
                        {CartAlert("Error", "Cannot add more. Only that many in stock.")}
                 /\ UNCHANGED cartOps
            ELSE /\ cartOps' = Started(Op("update", itemId, newQuantity, listItems))
                 /\ UNCHANGED cartAlerts
    /\ UNCHANGED <<ckVars, selfVars, exVars, sessVars, cartScreen, listItems,
                   subtotal, listView, cart, shippingAddresses,
                   selectedAddressId, couponLoading, cartNav>>

\* the - button (change -1) or the + button (change 1) of the item is disabled
QuantityButtonDisabled(item, change) ==
    IF change = -1
    THEN item.quantity <= 1
    ELSE item.quantity >= availableStock(item)

\* the - or + button of an item is pressed
ListUpdateQuantity ==
    \E itemId \in DOMAIN listItems, change \in {-1, 1} :
        /\ ListReady
        /\ BagCardinality(cartOps) < MaxPending
        /\ ~QuantityButtonDisabled(listItems[itemId], change)
        /\ handleUpdateQuantity(itemId, listItems[itemId].quantity + change)

\* Remove of an item: handleRemoveItem(itemId) up to its await
ListRemoveItem ==
    \E itemId \in DOMAIN listItems :
        /\ ListReady
        /\ BagCardinality(cartOps) < MaxPending
        /\ cartOps' = Started(Op("remove", itemId, 0, listItems))
        /\ UNCHANGED <<ckVars, selfVars, exVars, sessVars, cartScreen,
                       listItems, subtotal, listView, cart, shippingAddresses,
                       selectedAddressId, couponLoading, cartAlerts, cartNav>>

\* fetchData of the coupon screen resolves
CouponFetchOk ==
    \E c \in FetchedCarts, book \in FetchedAddresses :
        /\ cartScreen = "coupon"
        /\ couponLoading
        /\ cartOps = EmptyBag
        /\ cart' = c
        /\ shippingAddresses' = book.addresses
        /\ selectedAddressId' = book.current
        /\ couponLoading' = FALSE
        /\ UNCHANGED <<ckVars, selfVars, exVars, sessVars, cartScreen,
                       listItems, subtotal, listView, cartOps, cartAlerts,
                       cartNav>>

\* getCart or getShippingAddresses rejects
CouponFetchFail ==
    /\ cartScreen = "coupon"
    /\ couponLoading
    /\ cartOps = EmptyBag
    /\ couponLoading' = FALSE
    /\ cartAlerts' = cartAlerts \cup
           {CartAlert("Error", "Failed to load cart or shipping addresses")}
    /\ UNCHANGED <<ckVars, selfVars, exVars, sessVars, cartScreen, listItems,
                   subtotal, listView, cart, shippingAddresses,
                   selectedAddressId, cartOps, cartNav>>

\* handleRemoveItem(productId) of the coupon screen up to its await
couponRemoveItem(itemId) ==
    cartOps' = Started(Op("remove", itemId, 0, cart))

\* handleQuantityChange(itemId, change) up to its await
handleQuantityChange(itemId, change) ==
    LET newQuantity == cart.items[itemId] + change
    IN  /\ IF newQuantity < 1
           THEN couponRemoveItem(itemId)
           ELSE cartOps' = Started(Op("update", itemId, newQuantity, cart))
        /\ UNCHANGED <<ckVars, selfVars, exVars, sessVars, cartScreen,
                       listItems, subtotal, listView, cart, shippingAddresses,
                       selectedAddressId, couponLoading, cartAlerts, cartNav>>

\* the - and + buttons of an item
CouponQuantityChange ==
    \E itemId \in DOMAIN cart.items, change \in {-1, 1} :
        /\ CouponReady
        /\ BagCardinality(cartOps) < MaxPending
        /\ cart.items[itemId] + change <= MaxQuantity
        /\ handleQuantityChange(itemId, change)

\* the trash button of an item
CouponRemoveItem ==
    \E itemId \in DOMAIN cart.items :
        /\ CouponReady
        /\ BagCardinality(cartOps) < MaxPending
        /\ couponRemoveItem(itemId)
        /\ UNCHANGED <<ckVars, selfVars, exVars, sessVars, cartScreen,
                       listItems, subtotal, listView, cart, shippingAddresses,
                       selectedAddressId, couponLoading, cartAlerts, cartNav>>

\* shippingAddresses.find(addr => addr.id === selectedAddressId)?.address
SelectedAddress ==
    IF selectedAddressId \in DOMAIN shippingAddresses
    THEN shippingAddresses[selectedAddressId]
    ELSE Undefined

\* Proceed to Checkout (shown while the cart has items): handleCheckout up
\* to its await
handleCheckout ==
    /\ IF ~cart.present \/ DOMAIN cart.items = {}
       THEN /\ cartAlerts' = cartAlerts \cup {CartAlert("Error", "Your cart is empty")}
            /\ UNCHANGED <<cartNav, couponLoading, cartOps>>
       ELSE IF selectedAddressId = 0
            THEN /\ cartAlerts' = cartAlerts \cup
                        {CartAlert("Error", "Please select a shipping address")}
                 /\ cartNav' = Append(cartNav, "ShippingAddress")
                 /\ UNCHANGED <<couponLoading, cartOps>>
            ELSE IF Falsy(SelectedAddress)
                 THEN /\ cartAlerts' = cartAlerts \cup
                             {CartAlert("Error", "Selected shipping address not found")}
                      /\ UNCHANGED <<cartNav, couponLoading, cartOps>>
                 ELSE /\ couponLoading' = TRUE
                      /\ cartOps' = Started(Op("initiate", 0, 0, cart))
                      /\ UNCHANGED <<cartNav, cartAlerts>>
    /\ UNCHANGED <<ckVars, selfVars, exVars, sessVars, cartScreen, listItems,
                   subtotal, listView, cart, shippingAddresses,
                   selectedAddressId>>

PressCheckout ==
    /\ CouponReady
    /\ cart.present
    /\ DOMAIN cart.items # {}
    /\ BagCardinality(cartOps) < MaxPending
    /\ handleCheckout

\* the message of the error alert a failed call opens
FailureAlert(screen, kind) ==
    CartAlert("Error",
        IF kind = "initiate" THEN "Failed to initiate payment"
        ELSE IF screen = "list"
             THEN IF kind = "update" THEN "Failed to update quantity. Please try again."
                  ELSE "Failed to remove item. Please try again."
             ELSE IF kind = "update" THEN "Failed to update item quantity"
                  ELSE "Failed to remove item from cart")

\* the rest of a handler that changes the local state before its call returned
Settle_Optimistic(op, ok) ==
        /\ cartOps' = cartOps (-) SetToBag({op})
        /\ IF op.kind = "initiate"
           THEN /\ couponLoading' = FALSE
                /\ IF ok
                   THEN cartNav' = Append(cartNav, "Checkout") /\ UNCHANGED cartAlerts
                   ELSE /\ cartAlerts' = cartAlerts \cup
                               {FailureAlert(cartScreen, op.kind)}
                        /\ UNCHANGED cartNav
                /\ UNCHANGED <<listItems, subtotal, cart>>
           ELSE /\ IF cartScreen = "list"
                   THEN /\ listItems' = IF op.kind = "update"
                                        THEN WithQuantity(listItems, op.itemId, op.quantity)
                                        ELSE Without(listItems, op.itemId)
                        /\ subtotal' = Total(listItems')
                        /\ UNCHANGED cart
                   ELSE /\ cart' = CartOf(IF op.kind = "update"
                                          THEN WithCount(cart.items, op.itemId, op.quantity)
                                          ELSE Without(cart.items, op.itemId))
                        /\ UNCHANGED <<listItems, subtotal>>
                /\ cartAlerts' = IF ok THEN cartAlerts
                                 ELSE cartAlerts \cup {FailureAlert(cartScreen, op.kind)}
                /\ UNCHANGED <<couponLoading, cartNav>>
        /\ UNCHANGED <<ckVars, selfVars, exVars, sessVars, cartScreen, listView,
                       shippingAddresses, selectedAddressId>>

\* a backend call settles (ok: it resolved) and the rest of its handler runs
Settle(op, ok) ==
        /\ cartOps' = cartOps (-) SetToBag({op})
        /\ IF ~ok
           THEN \* the catch block (and finally of handleCheckout)
                /\ cartAlerts' = cartAlerts \cup {FailureAlert(cartScreen, op.kind)}
                /\ couponLoading' = IF op.kind = "initiate" THEN FALSE ELSE couponLoading
                /\ UNCHANGED <<listItems, subtotal, cart, cartNav>>
           ELSE IF op.kind = "initiate"
           THEN \* navigation.navigate('Checkout', ...); finally setLoading(false)
                /\ cartNav' = Append(cartNav, "Checkout")
                /\ couponLoading' = FALSE
                /\ UNCHANGED <<listItems, subtotal, cart, cartAlerts>>
           ELSE IF cartScreen = "list"
           THEN \* setCartItems(prevItems => ...); the total is computed from
                \* the cartItems the handler closed over
                /\ IF op.kind = "update"
                   THEN /\ listItems' = WithQuantity(listItems, op.itemId, op.quantity)
                        /\ subtotal' =
                               Total(WithQuantity(op.closure, op.itemId, op.quantity))
                   ELSE /\ listItems' = Without(listItems, op.itemId)
                        /\ subtotal' = Total(Without(op.closure, op.itemId))
                /\ UNCHANGED <<cart, couponLoading, cartAlerts, cartNav>>
           ELSE \* setCart({ ...cart, items: ... }) with the cart the handler
                \* closed over
                /\ IF op.kind = "update"
                   THEN /\ cart' = CartOf(WithCount(op.closure.items, op.itemId, op.quantity))
                        /\ UNCHANGED cartAlerts
                   ELSE /\ cart' = CartOf(Without(op.closure.items, op.itemId))
                        /\ cartAlerts' = cartAlerts \cup
                               {CartAlert("Success", "Item removed from cart")}
                /\ UNCHANGED <<listItems, subtotal, couponLoading, cartNav>>
        /\ UNCHANGED <<ckVars, selfVars, exVars, sessVars, cartScreen, listView,
                       shippingAddresses, selectedAddressId>>

OpSettles == \E op \in BagToSet(cartOps), ok \in BOOLEAN : Settle(op, ok)

\* an alert is dismissed
CartDismissAlert ==
    \E a \in cartAlerts :
        /\ cartAlerts' = cartAlerts \ {a}
        /\ UNCHANGED <<ckVars, selfVars, exVars, sessVars, cartScreen, listItems,
                       subtotal, listView, cart, shippingAddresses,
                       selectedAddressId, couponLoading, cartOps, cartNav>>

\* back from the screen that was pushed over the cart
CartGoBack ==
    /\ Len(cartNav) > 1
    /\ cartNav' = SubSeq(cartNav, 1, Len(cartNav) - 1)
    /\ UNCHANGED <<ckVars, selfVars, exVars, sessVars, cartScreen, listItems,
                   subtotal, listView, cart, shippingAddresses,
                   selectedAddressId, couponLoading, cartOps, cartAlerts>>

CartNext ==
    \/ ListFetchOk
    \/ ListFetchFail
    \/ ListPressRetry
    \/ ListUpdateQuantity
    \/ ListRemoveItem
    \/ CouponFetchOk
    \/ CouponFetchFail
    \/ CouponQuantityChange
    \/ CouponRemoveItem
    \/ PressCheckout
    \/ OpSettles
    \/ CartDismissAlert
    \/ CartGoBack

CartSpec == CartInit /\ [][CartNext]_vars

(* ------------------------------------------------------------------ *)
(* Claims about the route-parameter checkout screen (Spec)             *)
(* ------------------------------------------------------------------ *)

TopRoute == nav[Len(nav)]
FromResponse(a) == a.call # 0
SaysSuccess(o) == ~o.threw /\ o.status = "success"

\* C1: within one mount and without a user retry, verifyPayment is called at
\* most once, however many success-shaped navigation or load-error events
\* the WebView delivers.
C1_VerifyOncePerSession == ~retried => Len(calls) <= 1

\* C2: a success alert is open, or the screen was replaced by Home or
\* OrderDetail, only when a verifyPayment call of this mount has settled with
\* status "success"; redirect and load-error events alone never do it.
C2_SuccessOnlyAfterVerification ==
    /\ \A a \in alerts :
          a.kind = "success" =>
              /\ a.call \in 1..Len(calls)
              /\ calls[a.call].done
              /\ calls[a.call].verified
    /\ TopRoute.name \in {"Home", "OrderDetail"} =>
          \E i \in 1..Len(calls) : calls[i].done /\ calls[i].verified

C2_Witness == TopRoute.name = "OrderDetail" /\ \E i \in 1..Len(calls) : calls[i].verified

\* C4: with a missing or non-https authorizationUrl the WebView is never
\* rendered, verifyPayment is never called, and once the font spinner is left
\* the screen shows the Invalid Payment Link view (until the user leaves).
C4_InvalidLinkNeverPresents ==
    InvalidLink(authorizationUrl) =>
        /\ rendered \in {"spinner", "invalid", "unmounted"}
        /\ calls = <<>>
        /\ (fontsLoaded /\ Mounted /\ rendered # "spinner" => rendered = "invalid")

C4_Witness ==
    /\ authorizationUrl = InsecurePage
    /\ fontsLoaded
    /\ rendered = "invalid"

\* C5: at most one verifyPayment call is in flight at any time.
C5_SingleFlight == Cardinality(InFlight) <= 1

\* C6: after a verifyPayment call threw, the alert shows the fixed text
\* 'Payment verification failed' and is not a success alert.
C6_TransportErrorGeneric ==
    \A a \in alerts :
        (FromResponse(a) /\ a.outcome.threw) =>
            a.kind = "error" /\ a.message = "Payment verification failed"

\* C7: after a response with status "failed" the error alert shows the
\* response's error field verbatim when it is non-empty, and
\* 'Payment failed. Please try again.' when it is absent or empty.
C7_FailedMessage ==
    \A a \in alerts :
        (FromResponse(a) /\ ~a.outcome.threw /\ a.outcome.status = "failed") =>
            /\ a.kind = "error"
            /\ a.outcome.error \notin {Undefined, Null, ""} => a.message = a.outcome.error
            /\ a.outcome.error \in {Undefined, Null, ""} =>
                   a.message = "Payment failed. Please try again."

C7_Witness ==
    /\ \E a \in alerts :
          FromResponse(a) /\ a.outcome.status = "failed" /\ a.message = "card_declined"
    /\ \E a \in alerts :
          FromResponse(a) /\ a.outcome.status = "failed" /\ a.outcome.error = Undefined

\* C8: a response {status: "success", order_id: N} opens the success alert
\* carrying N and nothing else for that call (no error alert, no change of the
\* error view's state), and View Order navigates to OrderDetail with orderId N.
C8_AlertCarries ==
    \A a \in alerts :
        (FromResponse(a) /\ SaysSuccess(a.outcome)) =>
            /\ a.kind = "success"
            /\ a.orderId = a.outcome.order_id
            /\ \A b \in alerts : b.call = a.call => b = a

C8_Step ==
    /\ \A i \in 1..Len(calls) :
          (~calls[i].done /\ calls'[i].done /\ calls'[i].verified) =>
              /\ webViewError' = webViewError
              /\ webViewVisible' = webViewVisible
              /\ \A a \in alerts' \ alerts : a.kind = "success" /\ a.call = i
    /\ (TopRoute.name = "Checkout" /\ nav'[Len(nav')].name = "OrderDetail") =>
          \E a \in alerts \ alerts' :
              /\ SaysSuccess(a.outcome)
              /\ nav'[Len(nav')].orderId = a.outcome.order_id

C8_SuccessCarriesOrderId == []C8_AlertCarries /\ [][C8_Step]_vars

C8_Witness ==
    /\ TopRoute = Route("OrderDetail", <<7>>)
    /\ \E i \in 1..Len(calls) : calls[i].verified

\* C9: the step in which a verifyPayment call settles opens exactly one
\* alert for it: the success alert if and only if the response status is
\* "success", the error alert for "failed", any other or missing status, and
\* a thrown error.
C9_Step ==
    \A i \in 1..Len(calls) :
        (~calls[i].done /\ calls'[i].done) =>
            \E a \in alerts' \ alerts :
                /\ alerts' \ alerts = {a}
                /\ a.call = i
                /\ a.kind = IF SaysSuccess(a.outcome) THEN "success" ELSE "error"
                /\ SaysSuccess(a.outcome) = calls'[i].verified

C9_OneOutcomePerCall == [][C9_Step]_vars

C9_Witness ==
    /\ \E a \in alerts : FromResponse(a) /\ a.outcome.status = "pending" /\ a.kind = "error"
    /\ \E a \in alerts : FromResponse(a) /\ a.outcome.threw /\ a.kind = "error"

(* ------------------------------------------------------------------ *)
(* Claims about redirects, load errors and failures (Spec)             *)
(* ------------------------------------------------------------------ *)

\* the WebView is mounted and delivers events
Presenting == Mounted /\ rendered = "webview"

\* a step in which a handler of the presented WebView may have run: the
\* state changed, and nothing was rendered, pressed or settled
HandlerStep ==
    /\ Presenting
    /\ ckVars' # ckVars
    /\ rendered' = rendered
    /\ nav' = nav
    /\ retried' = retried
    /\ fontsPc' = fontsPc
    /\ Len(calls') >= Len(calls)
    /\ SubSeq(calls', 1, Len(calls)) = calls

\* C11: verifyPayment is never called with an unresolved reference, and a
\* success-shaped redirect whose reference cannot be resolved starts no call
\* and opens the error alert 'No reference found in callback URL' and no
\* success alert.
C11_Step ==
    (HandlerStep /\ webViewError' = webViewError) =>
        \A url \in NavUrls :
            (/\ isPaymentSuccessUrl(url)
             /\ Falsy(referenceIdOf(url))
             /\ handleNavigationStateChange(url, FALSE)) =>
                /\ calls' = calls
                /\ \E a \in alerts' :
                      /\ a.kind = "error"
                      /\ a.message = "No reference found in callback URL"
                /\ \A a \in alerts' \ alerts : a.kind = "error"

C11_UnresolvedReferenceFails ==
    /\ [](\A i \in 1..Len(calls) : ~Falsy(calls[i].ref))
    /\ [][C11_Step]_vars

C11_Witness ==
    /\ reference = Undefined
    /\ calls = <<>>
    /\ \E a \in alerts : a.message = "No reference found in callback URL"

\* C12: a load error whose URL contains the backend callback path, with a
\* resolvable reference, calls verifyPayment with that reference, opens no
\* alert and leaves the navigation stack alone.
C12_Step ==
    HandlerStep =>
        \A url \in ErrorUrls, description \in ErrorDescriptions :
            (/\ webViewError' = description
             /\ Includes(url, callbackPath)
             /\ ~Falsy(extractReferenceFromUrl(url, reference))
             /\ handleWebViewError(url, description)) =>
                /\ Len(calls') = Len(calls) + 1
                /\ calls'[Len(calls')].ref = extractReferenceFromUrl(url, reference)
                /\ ~calls'[Len(calls')].done
                /\ alerts' = alerts
                /\ nav' = nav

C12_CallbackLoadErrorVerifies == [][C12_Step]_vars

C12_Witness ==
    /\ webViewError = "net::ERR_CONNECTION_REFUSED"
    /\ Len(calls) = 1
    /\ calls[1].ref = "ref123"
    /\ alerts = {}
    /\ Mounted

\* C13: a load error whose URL does not contain the callback path starts no
\* verifyPayment call and opens an error alert showing the reported
\* description, or 'Failed to load payment page' when the description is empty.
C13_Step ==
    HandlerStep =>
        \A url \in ErrorUrls, description \in ErrorDescriptions :
            (/\ webViewError' = description
             /\ ~Includes(url, callbackPath)
             /\ handleWebViewError(url, description)) =>
                /\ calls' = calls
                /\ \E a \in alerts' :
                      /\ a.kind = "error"
                      /\ a.call = 0
                      /\ a.message = IF description = ""
                                     THEN "Failed to load payment page"
                                     ELSE description

C13_OtherLoadErrorFails == [][C13_Step]_vars

C13_Witness ==
    /\ calls = <<>>
    /\ webViewError = "net::ERR_CONNECTION_REFUSED"
    /\ \E a \in alerts : a.kind = "error" /\ a.message = "net::ERR_CONNECTION_REFUSED"

\* C14: while the error alert of a load error, a failed or rejected
\* verification or an unresolved reference is open, the user is shown a
\* message and can both retry (Try Again) and go back (OK or Back to Cart).
C14_FailureOffersRetryAndBack ==
    \A a \in alerts :
        (a.kind = "error" /\ a.message # "Failed to load fonts") =>
            /\ ~Falsy(a.message)
            /\ ENABLED PressTryAgain
            /\ ENABLED PressOK \/ ENABLED PressBackToCart

\* C15: closing the success alert of the mounted screen navigates to
\* OrderDetail and nowhere else, and closing an error alert of the mounted
\* screen goes back to the cart and nowhere else.
C15_Step ==
    \A a \in alerts \ alerts' :
        Mounted =>
            IF a.kind = "success"
            THEN nav'[Len(nav')].name = "OrderDetail"
            ELSE nav' = SubSeq(nav, 1, Len(nav) - 1) /\ nav'[Len(nav')].name = "Cart"

C15_OneExitPerOutcome == [][C15_Step]_vars

\* C16: once a verifyPayment call has settled without status "success", a
\* further call is started only after the user pressed Try Again.
C16_Step ==
    (/\ Len(calls') > Len(calls)
     /\ \E i \in 1..Len(calls) : calls[i].done /\ ~calls[i].verified) => retried

C17_Step ==
    /\ PressTryAgain =>
          /\ webViewVisible'
          /\ View(fontsLoaded', authorizationUrl', webViewVisible', webViewError')
                 = "webview"
    /\ (retried /\ HandlerStep /\ webViewError' = webViewError) =>
          \A url \in NavUrls :
              (/\ isPaymentSuccessUrl(url)
               /\ ~Falsy(referenceIdOf(url))
               /\ handleNavigationStateChange(url, FALSE)) =>
                  /\ Len(calls') = Len(calls) + 1
                  /\ ~calls'[Len(calls')].done
    /\ retried =>
          \A a \in alerts' \ alerts :
              FromResponse(a) =>
                  a.kind = IF SaysSuccess(a.outcome) THEN "success" ELSE "error"

C17_RetryReentersFlow == [][C17_Step]_vars

C17_Witness ==
    /\ retried
    /\ Len(calls) = 2
    /\ calls[2].done /\ calls[2].verified
    /\ \E a \in alerts : a.kind = "success" /\ a.call = 2

\* C18: a verifyPayment call that settles after the screen was left opens no
\* alert and causes no navigation.
C18_Step ==
    (/\ ~Mounted
     /\ \E i \in 1..Len(calls) : ~calls[i].done /\ calls'[i].done) =>
        alerts' = alerts /\ nav' = nav

C18_LeftScreenAbandonsVerification == [][C18_Step]_vars

\* C19: in the session with authorization URL https://pay.example/abc and
\* reference ref123, a verifyPayment call starts only while the WebView is
\* presented and carries ref123, and a success alert is opened only by the
\* settling of such a call and carries the order id of its response (7 for
\* {status: "success", order_id: 7}).
C19_Step ==
    (authorizationUrl = GatewayPage /\ reference = "ref123") =>
        /\ Len(calls') > Len(calls) =>
              /\ Presenting
              /\ calls'[Len(calls')].ref = "ref123"
        /\ \A a \in alerts' \ alerts :
              a.kind = "success" =>
                  /\ a.call \in InFlight
                  /\ calls[a.call].ref = "ref123"
                  /\ calls'[a.call].done
                  /\ SaysSuccess(a.outcome)
                  /\ a.orderId = a.outcome.order_id

C19_EndToEndSuccess == [][C19_Step]_vars

C19_Witness ==
    /\ authorizationUrl = GatewayPage
    /\ reference = "ref123"
    /\ ~retried
    /\ webViewError = Null
    /\ calls = <<[ref |-> "ref123", done |-> TRUE, verified |-> TRUE]>>
    /\ \E a \in alerts :
          /\ a.kind = "success"
          /\ a.call = 1
          /\ a.outcome = Resolved("success", <<7>>, Undefined)
          /\ a.orderId = <<7>>

\* C20: a navigation event hides the WebView exactly when its URL contains
\* one of the success patterns; an event whose URL contains none of them
\* changes nothing.
C20_Step ==
    (HandlerStep /\ webViewError' = webViewError) =>
        \A url \in NavUrls :
            handleNavigationStateChange(url, FALSE) =>
                IF \E pattern \in successPatterns : Includes(url, pattern)
                THEN ~webViewVisible'
                ELSE UNCHANGED ckVars

C20_OnlyPatternsClassify == [][C20_Step]_vars

C20_Witness ==
    /\ rendered = "webview"
    /\ ~webViewVisible
    /\ Len(calls) = 1
    /\ webViewError = Null
    /\ ~retried

\* C22: while a verifyPayment call is outstanding the screen shows the
\* loading / verifying view: once the render of the current state is
\* committed, the browser is hidden and the 'Payment Failed' view with its
\* Try Again button is not displayed, also when the verification was entered
\* through a load error on the callback URL.
C22_VerifyingShowsLoading ==
    (/\ Mounted
     /\ InFlight # {}
     /\ rendered = View(fontsLoaded, authorizationUrl, webViewVisible, webViewError))
        => rendered = "loading"

\* C23: a success outcome always carries a defined order id: no open success
\* alert is without one, and View Order never navigates to OrderDetail with
\* an undefined orderId, also when the success response omits order_id.
C23_ViewOrderHasOrderId ==
    /\ \A a \in alerts : a.kind = "success" => a.orderId # NoOrderId
    /\ TopRoute.name = "OrderDetail" => TopRoute.orderId # NoOrderId

(* ------------------------------------------------------------------ *)
(* Claims about extractReferenceFromUrl (ExtractSpec)                  *)
(* ------------------------------------------------------------------ *)

\* C10: the value returned is the reference parameter when it is present and
\* non-empty, otherwise transaction_id when present and non-empty, otherwise
\* the session's reference.
C10_ExtractPrecedence ==
    exResult # NotApplied =>
        exResult = IF exRefParam \notin {Null, ""} THEN exRefParam
                   ELSE IF exTxnParam \notin {Null, ""} THEN exTxnParam
                   ELSE exSessionRef

(* ------------------------------------------------------------------ *)
(* Claims about the self-initiating checkout screen (SelfSpec)         *)
(* ------------------------------------------------------------------ *)

\* C3: the OrderConfirmation view ("Your order has been placed
\* successfully") is shown only after the backend was asked to verify the
\* payment.
C3_ConfirmationOnlyAfterVerification ==
    (selfNav # <<>> /\ SelfTop.name = "OrderConfirmation") => "verifyPayment" \in apiLog

\* C25: paymentLoading is true only while an initiatePayment request is in
\* flight; once the request has completed, successfully or not, it is false
\* again, so Pay Now is enabled when paymentUrl is later reset to null.
C25_LoadingOnlyWhileInitiating == paymentLoading => initiating

(* ------------------------------------------------------------------ *)
(* Claims about the session and the API client (SessionSpec)           *)
(* ------------------------------------------------------------------ *)

\* C21 as stated: every request sent through the API client carries
\* "Bearer <token>" with the access token that is in device storage at the
\* time the request is sent, and no Authorization header when none is stored.
C21_HeaderMatchesStorageAtSend ==
    sent # NotSent =>
        sent.authorization =
            IF sent.stored = Null THEN Undefined ELSE "Bearer " \o sent.stored

C21_ReadStep ==
    (request = NoRequest /\ request' # NoRequest) =>
        request'.token = storage["access_token"]

\* C21: every request sent through the API client carries "Bearer <token>"
\* with the access token its interceptor read from device storage when the
\* request entered the client, and no Authorization header when it read none.
C21_HeaderMatchesTokenRead ==
    /\ [](sent # NotSent =>
            sent.authorization =
                IF sent.read = Null THEN Undefined ELSE "Bearer " \o sent.read)
    /\ [][C21_ReadStep]_vars

C21_Witness ==
    /\ sent # NotSent
    /\ sent.read \in AccessTokens
    /\ sent.authorization # Undefined

\* the splash screen replaces itself
SplashLeaves == appRoute = "Splash" /\ appRoute' \notin {"Splash", "off"}

C30_Step ==
    /\ SplashLeaves =>
           appRoute' = IF storage["access_token"] = Null THEN "Login" ELSE "Home"
    /\ (appRoute = "Home" /\ appRoute' = "Login") =>
           \A k \in StorageKeys : storage[k] = Null
    /\ (SplashLeaves /\ lastAuth.op = "logout") => appRoute' = "Login"

\* C30: the splash screen replaces itself with Home exactly when an access
\* token is in storage and with Login otherwise; logout has removed
\* access_token, refresh_token and user_id when it navigates to Login; so
\* after a logout that ran to its end (and no later login) the next app start
\* routes to Login.
C30_SplashRoutesByToken == [][C30_Step]_vars

C30_Witness ==
    /\ lastAuth.op = "logout"
    /\ lastAuth.start < starts
    /\ appRoute = "Login"
    /\ splashPc = "done"

(* ------------------------------------------------------------------ *)
(* Claims about the cart screens (CartSpec)                            *)
(* ------------------------------------------------------------------ *)

\* a handler issued a payment initiation in this step
C24_Requested ==
    \E op \in BagToSet(cartOps') :
        op.kind = "initiate" /\ CopiesIn(op, cartOps') > CopiesIn(op, cartOps)

C24_Step ==
    /\ C24_Requested =>
           cart.present /\ DOMAIN cart.items # {} /\ selectedAddressId # 0
    /\ cartNav' # cartNav /\ Len(cartNav') > Len(cartNav) =>
           /\ cartNav'[Len(cartNav')] = "Checkout"
           /\ \E op \in BagToSet(cartOps) : op.kind = "initiate" /\ Settle(op, TRUE)

\* C24: payment initiation is requested only when the cart is non-empty and a
\* shipping address is selected; the cart screen navigates to Checkout only
\* when an initiation request returned successfully; an empty cart, a missing
\* address or a failed initiation leaves the user on the cart screen (with an
\* error alert).
C24_CheckoutOnlyAfterInitiation == [][C24_Step]_vars

\* C26: in the item-list cart screen, once every quantity update and item
\* removal has completed, the displayed subtotal is the sum over the current
\* cart items of price times quantity.
C26_SubtotalIsSum ==
    (cartScreen = "list" /\ listView = "ready" /\ cartOps = EmptyBag)
        => subtotal = Total(listItems)

\* the stock the quantity is limited by: the variant's, else the product's
C27_StatedStock(item) ==
    IF item.hasVariant THEN item.variantStock ELSE item.productStock

\* C27: in the item-list cart screen handleUpdateQuantity sends updateCartItem
\* only for a quantity of at least 1 and at most the available stock of the
\* item (variant stock, else product stock).
C27_UpdateWithinStock ==
    \A op \in BagToSet(cartOps) :
        (cartScreen = "list" /\ op.kind = "update") =>
            /\ op.quantity >= 1
            /\ op.quantity <= C27_StatedStock(op.closure[op.itemId])

C28_Step ==
    cartOps' # cartOps =>
        \A op \in BagToSet(cartOps) :
            (op.kind \in {"update", "remove"} /\ Settle(op, FALSE)) =>
                /\ listItems' = listItems
                /\ subtotal' = subtotal
                /\ cart' = cart
                /\ \E a \in cartAlerts' : a.title = "Error"

\* C28: in both cart screens, when the backend call of a quantity update or
\* of an item removal fails, the step that handles the failure leaves the
\* items, their quantities and the subtotal as they were and an error alert
\* is open afterwards.
C28_FailureLeavesCart == [][C28_Step]_vars

C28_Witness ==
    /\ cartScreen = "coupon"
    /\ cart.present
    /\ DOMAIN cart.items # {}
    /\ CartAlert("Error", "Failed to update item quantity") \in cartAlerts

C29_Step ==
    cartOps' # cartOps =>
        \A op \in BagToSet(cartOps) :
            (/\ cartScreen = "coupon"
             /\ op.kind \in {"update", "remove"}
             /\ Settle(op, TRUE)) =>
                Without(cart'.items, op.itemId) = Without(cart.items, op.itemId)

\* C29: in the coupon / address cart screen a cart operation that succeeds
\* leaves the local state of every other item as it is, so that of two
\* operations on different items that were started before either returned
\* and both succeed, both changes are in the local cart afterwards.
C29_NoLostUpdate == [][C29_Step]_vars

====
